---- MODULE Spec2Model ----
(***************************************************************************)
(* Startup funding dashboard (src/app.py): one script that loads a CSV of  *)
(* funding records, cleans it, reads the sidebar widgets, filters the      *)
(* frame and computes metrics and ranked aggregates.                       *)
(*                                                                         *)
(* Text values are sequences of one-character strings, so that split,      *)
(* strip, substring and ordering are computed on the characters.           *)
(* Amounts are counted in units of 1/AmountScale dollar, so a float amount *)
(* that is not a whole number of dollars is representable.                 *)
(***************************************************************************)
EXTENDS Integers, Sequences, FiniteSets, TLC

VARIABLES pc, raw, df,
          selected_city, selected_years, selected_months, selected_industry,
          selected_startups, selected_investors, amount_range, top_n,
          filtered_df, shown, metrics,
          top_startups, top_investors, monthly_trend, top_industries, top_cities,
          call_rows, call_n, call_ret

sidebar == <<selected_city, selected_years, selected_months, selected_industry,
             selected_startups, selected_investors, amount_range, top_n>>
outputs == <<shown, metrics, top_startups, top_investors, monthly_trend,
             top_industries, top_cities>>
call    == <<call_rows, call_n, call_ret>>
vars    == <<pc, raw, df, sidebar, filtered_df, outputs, call>>

----------------------------------------------------------------------------
(* Bounds of the model *)

\* rows in the CSV file
MaxRows == 2
\* rows and n handed to groupby/sum/nlargest when it is checked on its own
MaxCallRows == 3
MaxCallN == 3

(* Constants of the program *)
TopNMin == 3
TopNMax == 20
TopNDefault == 10

\* amounts are held in 1/AmountScale dollars (the column is a float column)
AmountScale == 2
\* pandas' missing value (NaN); amounts, years and months of the model are >= 0
NaN == -1

----------------------------------------------------------------------------
(* Text *)

Min(a, b) == IF a <= b THEN a ELSE b
Max(a, b) == IF a >= b THEN a ELSE b

Range(s) == {s[i] : i \in DOMAIN s}

\* the characters used, in code point order
CodePoints == <<" ", ",", "A", "B", "E", "G", "I", "O", "P", "U", "Z",
                "a", "c", "d", "e", "i", "l", "n", "o", "r", "s", "t", "u", "v", "y">>

Ord(c) == CHOOSE i \in DOMAIN CodePoints : CodePoints[i] = c

\* Python's str < str
RECURSIVE StrLess(_, _)
StrLess(a, b) ==
    IF b = <<>> THEN FALSE
    ELSE IF a = <<>> THEN TRUE
    ELSE IF Head(a) = Head(b) THEN StrLess(Tail(a), Tail(b))
    ELSE Ord(Head(a)) < Ord(Head(b))

\* sep occurs in s at position i
OccursAt(s, sep, i) ==
    /\ i >= 1
    /\ i + Len(sep) - 1 <= Len(s)
    /\ \A k \in 1..Len(sep) : s[i + k - 1] = sep[k]

\* Python's `inv in x` on strings
Contains(x, inv) == \E i \in 1..(Len(x) + 1) : OccursAt(x, inv, i)

\* Python's str.split(sep), sep non-empty
RECURSIVE Split(_, _)
Split(s, sep) ==
    IF \E i \in 1..Len(s) : OccursAt(s, sep, i)
    THEN LET i == CHOOSE j \in 1..Len(s) :
                     /\ OccursAt(s, sep, j)
                     /\ \A k \in 1..(j - 1) : ~OccursAt(s, sep, k)
         IN  <<SubSeq(s, 1, i - 1)>> \o Split(SubSeq(s, i + Len(sep), Len(s)), sep)
    ELSE <<s>>

\* Python's str.strip()
RECURSIVE Strip(_)
Strip(s) ==
    IF s = <<>> THEN s
    ELSE IF Head(s) = " " THEN Strip(Tail(s))
    ELSE IF s[Len(s)] = " " THEN Strip(SubSeq(s, 1, Len(s) - 1))
    ELSE s

Comma == <<",">>
CommaSpace == <<",", " ">>
Undisclosed == <<"U", "n", "d", "i", "s", "c", "l", "o", "s", "e", "d", " ",
                 "I", "n", "v", "e", "s", "t", "o", "r", "s">>
All == <<"A", "l", "l">>

----------------------------------------------------------------------------
(* The CSV file.  A cell of a text column holds a text or is missing; a   *)
(* cell of the amount or date column holds a value or text that does not   *)
(* parse.                                                                  *)

Cell(t) == [null |-> FALSE, v |-> t]
NullCell == [null |-> TRUE, v |-> <<>>]
Num(a) == [kind |-> "num", v |-> a]
BadNum == [kind |-> "text", v |-> 0]
Day(y, m) == [kind |-> "date", y |-> y, m |-> m]
BadDay == [kind |-> "text", y |-> 0, m |-> 0]

CsvRow(startup, investors, city, industry, amount, date) ==
    [StartupName |-> startup, InvestorsName |-> investors, CityLocation |-> city,
     IndustryVertical |-> industry, AmountInUSD |-> amount, Date |-> date]

\* files of at most MaxRows rows drawn from pool, in every order
Files(pool) == UNION {[1..k -> pool] : k \in 0..MaxRows}

RECURSIVE SetToSeq(_)
SetToSeq(S) ==
    IF S = {} THEN <<>>
    ELSE LET x == CHOOSE y \in S : TRUE IN <<x>> \o SetToSeq(S \ {x})

\* files of at most MaxRows distinct rows drawn from pool, in one order each
DistinctFiles(pool) == {SetToSeq(S) : S \in {T \in SUBSET pool : Cardinality(T) <= MaxRows}}

----------------------------------------------------------------------------
(* Load Data / Data Cleaning *)

NaT == [y |-> NaN, m |-> NaN]

\* pd.to_numeric(errors="coerce")
ToNumeric(cell) == IF cell.kind = "num" THEN cell.v ELSE NaN

\* pd.to_datetime(errors="coerce")
ToDatetime(cell) == IF cell.kind = "date" THEN [y |-> cell.y, m |-> cell.m] ELSE NaT

DropnaSubset == {"AmountInUSD", "CityLocation", "StartupName", "InvestorsName",
                 "IndustryVertical"}

IsNa(r, col) ==
    CASE col = "AmountInUSD" -> r.AmountInUSD = NaN
      [] col = "Date" -> r.Date = NaT
      [] OTHER -> r[col].null

Dropna(rows, subset) == SelectSeq(rows, LAMBDA r : \A col \in subset : ~IsNa(r, col))

Coerce(rows) ==
    [i \in DOMAIN rows |->
        [rows[i] EXCEPT !.AmountInUSD = ToNumeric(@), !.Date = ToDatetime(@)]]

\* the frame after line 20: text columns hold texts, Year and Month are derived
Clean(rows) ==
    LET kept == Dropna(Coerce(rows), DropnaSubset)
    IN  [i \in DOMAIN kept |->
            [StartupName |-> kept[i].StartupName.v,
             InvestorsName |-> kept[i].InvestorsName.v,
             CityLocation |-> kept[i].CityLocation.v,
             IndustryVertical |-> kept[i].IndustryVertical.v,
             AmountInUSD |-> kept[i].AmountInUSD,
             Date |-> kept[i].Date,
             Year |-> kept[i].Date.y,
             Month |-> kept[i].Date.m]]

Load ==
    /\ pc = "load"
    /\ df' = Clean(raw)
    /\ pc' = "sidebar"
    /\ UNCHANGED <<raw, sidebar, filtered_df, outputs, call>>

----------------------------------------------------------------------------
(* Sidebar Filters.  A widget returns any selection of its options; the   *)
(* defaults are only the selection a session starts from.                  *)

Column(rows, col) == {rows[i][col] : i \in DOMAIN rows}

month_map == [m \in 1..12 |->
    <<"Jan", "Feb", "Mar", "Apr", "May", "Jun",
      "Jul", "Aug", "Sep", "Oct", "Nov", "Dec">>[m]]

month_options == {month_map[m] : m \in Column(df, "Month") \ {NaN}}

industry_list == {All} \cup Column(df, "IndustryVertical")

startup_list == Column(df, "StartupName")

\* the names of one Investors Name value, as line 46 reads them
InvestorNames(inv) ==
    {Strip(i) : i \in {j \in Range(Split(inv, Comma)) : Strip(j) # <<>>}}

all_investors == UNION {InvestorNames(inv) : inv \in Column(df, "InvestorsName")}

\* Python's int() of a float
PyInt(a) == IF a >= 0 THEN a \div AmountScale ELSE -((-a) \div AmountScale)

SetMin(S) == CHOOSE x \in S : \A y \in S : x <= y
SetMax(S) == CHOOSE x \in S : \A y \in S : x >= y

min_amt == PyInt(SetMin(Column(df, "AmountInUSD")))
max_amt == PyInt(SetMax(Column(df, "AmountInUSD")))

\* the positions of the "Top N" slider; a frame has at most MaxRows groups, so
\* a position above MaxRows gives the views of position MaxRows
TopNOptions == TopNMin..Min(TopNMax, Max(TopNMin, MaxRows))

Sidebar ==
    /\ pc = "sidebar"
    /\ df # <<>>
    /\ selected_city' \in SUBSET Column(df, "CityLocation")
    /\ selected_years' \in SUBSET Column(df, "Year")
    /\ selected_months' \in SUBSET month_options
    /\ selected_industry' \in industry_list
    /\ selected_startups' \in SUBSET startup_list
    /\ selected_investors' \in SUBSET all_investors
    /\ amount_range' \in {r \in (min_amt..max_amt) \X (min_amt..max_amt) : r[1] <= r[2]}
    /\ top_n' \in TopNOptions
    /\ pc' = "filter"
    /\ UNCHANGED <<raw, df, filtered_df, outputs, call>>

\* an empty frame has no minimum amount: int(nan) raises at line 50
SidebarFails ==
    /\ pc = "sidebar"
    /\ df = <<>>
    /\ pc' = "error"
    /\ UNCHANGED <<raw, df, sidebar, filtered_df, outputs, call>>

----------------------------------------------------------------------------
(* Apply Filters *)

Isin(x, values) == x \in values

\* between with the right bound left out of the range
BetweenExclusive(x, left, right) == left * AmountScale <= x /\ x < right * AmountScale

\* Series.between(left, right), the bounds in dollars
Between(x, left, right) == left * AmountScale <= x /\ x <= right * AmountScale

\* Series.map(month_map).isin(values): a missing month maps to NaN
MonthIsin(m, values) == m # NaN /\ Isin(month_map[m], values)

InvestorMatch(x, investors) == \E inv \in investors : Contains(x, inv)

FilterMain(rows) ==
    SelectSeq(rows, LAMBDA r :
        /\ Isin(r.CityLocation, selected_city)
        /\ Isin(r.Year, selected_years)
        /\ Between(r.AmountInUSD, amount_range[1], amount_range[2]))

FilterMonth(rows) == SelectSeq(rows, LAMBDA r : MonthIsin(r.Month, selected_months))

FilterIndustry(rows) ==
    IF selected_industry # All
    THEN SelectSeq(rows, LAMBDA r : r.IndustryVertical = selected_industry)
    ELSE rows

\* the startup filter applied without the check for an empty selection
FilterStartupAlways(rows) ==
    SelectSeq(rows, LAMBDA r : Isin(r.StartupName, selected_startups))

FilterStartup(rows) ==
    IF selected_startups # {}
    THEN SelectSeq(rows, LAMBDA r : Isin(r.StartupName, selected_startups))
    ELSE rows

FilterInvestor(rows) ==
    IF selected_investors # {}
    THEN SelectSeq(rows, LAMBDA r : InvestorMatch(r.InvestorsName, selected_investors))
    ELSE rows

ApplyFilters ==
    /\ pc = "filter"
    /\ filtered_df' = FilterInvestor(FilterStartup(FilterIndustry(FilterMonth(FilterMain(df)))))
    /\ pc' = "main"
    /\ UNCHANGED <<raw, df, sidebar, outputs, call>>

----------------------------------------------------------------------------
(* Aggregates *)

RECURSIVE Sum(_)
Sum(rows) == IF rows = <<>> THEN 0 ELSE Head(rows).AmountInUSD + Sum(Tail(rows))

\* sorted(S) for a set of texts
Sorted(S) ==
    [i \in 1..Cardinality(S) |->
        CHOOSE x \in S : Cardinality({y \in S : StrLess(y, x)}) = i - 1]

\* sorted(S) for a set of integers
SortedInts(S) ==
    [i \in 1..Cardinality(S) |->
        CHOOSE x \in S : Cardinality({y \in S : y < x}) = i - 1]

\* the sums of the rows under each key of the sequence keys
SumPerKey(rows, key, keys) ==
    [i \in DOMAIN keys |->
        [label |-> keys[i],
         sum |-> Sum(SelectSeq(rows, LAMBDA r : r[key] = keys[i]))]]

\* the keys of the rows in the order in which the rows first show them
RECURSIVE FirstSeen(_, _)
FirstSeen(rows, key) ==
    IF rows = <<>> THEN <<>>
    ELSE LET front == FirstSeen(SubSeq(rows, 1, Len(rows) - 1), key)
             k == rows[Len(rows)][key]
         IN  IF k \in Range(front) THEN front ELSE Append(front, k)

\* groupby with sort=False: the groups in the order of first appearance
GroupBySumUnsorted(rows, key) == SumPerKey(rows, key, FirstSeen(rows, key))

\* groupby(key)["Amount in USD"].sum() on a text column: one entry per key,
\* the keys sorted (groupby's sort=True)
GroupBySum(rows, key) == SumPerKey(rows, key, Sorted(Column(rows, key)))

\* groupby("Month")["Amount in USD"].sum(): rows without a month are left out
GroupByMonthSum(rows) ==
    SumPerKey(rows, "Month", SortedInts(Column(rows, "Month") \ {NaN}))

Remove(s, i) == SubSeq(s, 1, i - 1) \o SubSeq(s, i + 1, Len(s))

\* descending by sum, entries of equal sum in the order of the series
RECURSIVE SortDescending(_)
SortDescending(series) ==
    IF series = <<>> THEN <<>>
    ELSE LET i == CHOOSE j \in DOMAIN series :
                     /\ \A k \in DOMAIN series : series[k].sum <= series[j].sum
                     /\ \A k \in 1..(j - 1) : series[k].sum < series[j].sum
         IN  <<series[i]>> \o SortDescending(Remove(series, i))

\* nlargest that returns one entry too few
NLargestOffByOne(series, n) ==
    IF n <= 0 THEN <<>>
    ELSE SubSeq(SortDescending(series), 1, Min(n - 1, Len(series)))

\* Series.nlargest(n), keep="first"
NLargest(series, n) ==
    IF n <= 0 THEN <<>>
    ELSE SubSeq(SortDescending(series), 1, Min(n, Len(series)))

TopNBySum(rows, key, n) == NLargest(GroupBySum(rows, key), n)

\* str.split(", ") and explode: one row per element, in order
RECURSIVE Explode(_)
Explode(rows) ==
    IF rows = <<>> THEN <<>>
    ELSE LET parts == Split(Head(rows).InvestorsName, CommaSpace)
         IN  [i \in DOMAIN parts |-> [Head(rows) EXCEPT !.InvestorsName = parts[i]]]
             \o Explode(Tail(rows))

investor_df(rows) ==
    SelectSeq(Explode(rows), LAMBDA r : ~Isin(r.InvestorsName, {Undisclosed, <<>>}))

\* Series.mean() of a non-empty series, as the fraction sum / count
Mean(rows) == [num |-> Sum(rows), den |-> Len(rows)]

Charts == {"metrics", "table", "top_startups", "top_investors", "monthly_trend",
           "top_industries", "top_cities"}

----------------------------------------------------------------------------
(* Main Area *)

\* the main area without the check for an empty frame: metrics of no rows
MainEmptyComputes ==
    /\ pc = "main"
    /\ filtered_df = <<>>
    /\ metrics' = <<[total_funding |-> 0, total_deals |-> 0,
                     avg_ticket |-> [num |-> 0, den |-> 0]]>>
    /\ shown' = {"metrics"}
    /\ pc' = "done"
    /\ UNCHANGED <<raw, df, sidebar, filtered_df, top_startups, top_investors,
                   monthly_trend, top_industries, top_cities, call>>

MainEmpty ==
    /\ pc = "main"
    /\ filtered_df = <<>>
    /\ shown' = {"warning"}
    /\ pc' = "done"
    /\ UNCHANGED <<raw, df, sidebar, filtered_df, metrics, top_startups, top_investors,
                   monthly_trend, top_industries, top_cities, call>>

KeyMetrics ==
    [total_funding |-> Sum(filtered_df),
     total_deals |-> Len(filtered_df),
     avg_ticket |-> Mean(filtered_df)]

\* the startup ranking taken over the whole frame
TopStartupsOverDf == TopNBySum(df, "StartupName", top_n)

TopStartups == TopNBySum(filtered_df, "StartupName", top_n)

TopInvestors == TopNBySum(investor_df(filtered_df), "InvestorsName", top_n)

MonthlyTrend == GroupByMonthSum(filtered_df)

TopIndustries == TopNBySum(filtered_df, "IndustryVertical", top_n)

TopCities ==
    TopNBySum(SelectSeq(df, LAMBDA r : Isin(r.Year, selected_years)), "CityLocation", top_n)

MainCharts ==
    /\ pc = "main"
    /\ filtered_df # <<>>
    /\ metrics' = <<KeyMetrics>>
    /\ top_startups' = TopStartups
    /\ top_investors' = TopInvestors
    /\ monthly_trend' = MonthlyTrend
    /\ top_industries' = TopIndustries
    /\ top_cities' = TopCities
    /\ shown' = Charts
    /\ pc' = "done"
    /\ UNCHANGED <<raw, df, sidebar, filtered_df, call>>

----------------------------------------------------------------------------
(* The script *)

Goa == <<"G", "o", "a">>
Pune == <<"P", "u", "n", "e">>
AI == <<"A", "I">>
Ed == <<"E", "d">>
Ola == <<"O", "l", "a">>
Oyo == <<"O", "y", "o">>
Zen == <<"Z", "e", "n">>

Start(at, files) ==
    /\ pc = at
    /\ raw \in files
    /\ df = <<>>
    /\ selected_city = {}
    /\ selected_years = {}
    /\ selected_months = {}
    /\ selected_industry = All
    /\ selected_startups = {}
    /\ selected_investors = {}
    /\ amount_range = <<0, 0>>
    /\ top_n = TopNDefault
    /\ filtered_df = <<>>
    /\ shown = {}
    /\ metrics = <<>>
    /\ top_startups = <<>>
    /\ top_investors = <<>>
    /\ monthly_trend = <<>>
    /\ top_industries = <<>>
    /\ top_cities = <<>>

NoCall ==
    /\ call_rows = <<>>
    /\ call_n = 0
    /\ call_ret = <<>>

\* records that differ in city, industry, amount and date
FilterPool ==
    {CsvRow(Cell(Ola), Cell(<<"A">>), Cell(c), Cell(i), Num(a), d) :
        c \in {Goa, Pune}, i \in {AI, Ed}, a \in {2, 5},
        d \in {Day(2015, 1), Day(2016, 2)}}

Init == Start("load", DistinctFiles(FilterPool)) /\ NoCall

Next ==
    \/ Load
    \/ Sidebar
    \/ SidebarFails
    \/ ApplyFilters
    \/ MainEmpty
    \/ MainCharts

Spec == Init /\ [][Next]_vars

\* records that differ in the Investors Name text
InvestorTexts ==
    {<<"A">>, <<"A", "B">>, <<"A", ",", " ", "B">>, <<"A", ",", "B">>, <<" ">>,
     Undisclosed}

InvestorPool ==
    {CsvRow(Cell(Ola), Cell(inv), Cell(Goa), Cell(AI), Num(2), Day(2015, 1)) :
        inv \in InvestorTexts}

InitInvestors == Start("load", Files(InvestorPool)) /\ NoCall

SpecInvestors == InitInvestors /\ [][Next]_vars

\* records of which at most one cell is missing or does not parse
Defects == {"none", "StartupName", "InvestorsName", "CityLocation", "IndustryVertical",
            "AmountInUSD", "Date"}

TextCell(col, t, defect) == IF defect = col THEN NullCell ELSE Cell(t)

DefectRow(defect, a) ==
    CsvRow(TextCell("StartupName", Ola, defect),
           TextCell("InvestorsName", <<"A">>, defect),
           TextCell("CityLocation", Goa, defect),
           TextCell("IndustryVertical", AI, defect),
           IF defect = "AmountInUSD" THEN BadNum ELSE Num(a),
           IF defect = "Date" THEN BadDay ELSE Day(2015, 1))

LoadPool == {DefectRow(d, a) : d \in Defects, a \in {2, 4}}

InitLoad == Start("load", Files(LoadPool)) /\ NoCall

SpecLoad == InitLoad /\ [][Next]_vars

----------------------------------------------------------------------------
(* groupby / sum / nlargest on its own: any rows, any n *)

CallRows ==
    {[StartupName |-> s, AmountInUSD |-> a] : s \in {Ola, Oyo, Zen}, a \in {2, 4}}

CallTopN ==
    /\ pc = "call"
    /\ call_ret' = TopNBySum(call_rows, "StartupName", call_n)
    /\ pc' = "returned"
    /\ UNCHANGED <<raw, df, sidebar, filtered_df, outputs, call_rows, call_n>>

InitTopN ==
    /\ Start("call", {<<>>})
    /\ call_rows \in UNION {[1..k -> CallRows] : k \in 0..MaxCallRows}
    /\ call_n \in (0 - 1)..MaxCallN
    /\ call_ret = <<>>

SpecTopN == InitTopN /\ [][CallTopN]_vars

----------------------------------------------------------------------------
(* The filter, stated on the records *)

Filtered == pc \in {"main", "done"}

Fields == {"city", "year", "month", "amount", "industry", "startup", "investor"}

InCities(r) == r.CityLocation \in selected_city
InYears(r) == r.Year \in selected_years
InMonths(r) == \E m \in 1..12 : m = r.Month /\ month_map[m] \in selected_months
InAmounts(r) ==
    /\ amount_range[1] * AmountScale <= r.AmountInUSD
    /\ r.AmountInUSD <= amount_range[2] * AmountScale
InIndustry(r) == r.IndustryVertical = selected_industry

\* the criterion of a field is absent, empty or "All"
NoCriterion(f) ==
    CASE f = "city" -> selected_city = {}
      [] f = "year" -> selected_years = {}
      [] f = "month" -> selected_months = {}
      [] f = "industry" -> selected_industry = All
      [] f = "startup" -> selected_startups = {}
      [] f = "investor" -> selected_investors = {}
      [] OTHER -> FALSE

\* the record passes the filter of field f
Passes(r, f) ==
    CASE f = "city" -> InCities(r)
      [] f = "year" -> InYears(r)
      [] f = "month" -> InMonths(r)
      [] f = "amount" -> InAmounts(r)
      [] f = "industry" -> selected_industry = All \/ InIndustry(r)
      [] f = "startup" -> selected_startups = {} \/ r.StartupName \in selected_startups
      [] f = "investor" ->
            \/ selected_investors = {}
            \/ \E inv \in selected_investors : Contains(r.InvestorsName, inv)

\* the result when field f is not filtered at all
Without(f) == SelectSeq(df, LAMBDA r : \A g \in Fields \ {f} : Passes(r, g))

\* C1 as stated: an absent, empty or "All" criterion, of cities, years and
\* months too, leaves the result as if its field were not filtered at all.
C1_EveryEmptyCriterionIsNoOp ==
    Filtered =>
        \A f \in Fields : NoCriterion(f) => filtered_df = Without(f)

\* C1 amended: industry "All", no startup selected and no investor selected
\* each leave the result as if that field were not filtered at all; an empty
\* selection of cities, of years or of months leaves no record.
C1_OptionalCriteriaAreNoOps ==
    Filtered =>
        /\ \A f \in {"industry", "startup", "investor"} :
                NoCriterion(f) => filtered_df = Without(f)
        /\ \A f \in {"city", "year", "month"} :
                NoCriterion(f) => filtered_df = <<>>

C1_Witness ==
    /\ pc = "done"
    /\ NoCriterion("industry") /\ NoCriterion("startup") /\ NoCriterion("investor")
    /\ filtered_df # <<>>
    /\ Len(filtered_df) < Len(df)

\* every option of every multiselect chosen, the slider at its full extent
NoRestriction ==
    /\ selected_city = Column(df, "CityLocation")
    /\ selected_years = Column(df, "Year")
    /\ selected_months = month_options
    /\ selected_industry = All
    /\ selected_startups = {}
    /\ selected_investors = {}
    /\ amount_range = <<min_amt, max_amt>>

\* C2: with all criteria set to "no restriction" the filtered subset holds
\* exactly the records of the loaded dataset.
C2_NoRestrictionKeepsAll ==
    (Filtered /\ NoRestriction) => filtered_df = df

\* cities, years, months, one industry and an amount range are supplied
FiveCriteria ==
    /\ selected_city # {}
    /\ selected_years # {}
    /\ selected_months # {}
    /\ selected_industry # All
    /\ selected_startups = {}
    /\ selected_investors = {}

\* C3: the filtered subset is exactly the records with city in cities, year in
\* years, month in months, industry equal to the selected one and
\* min <= amount <= max, both bounds inclusive.
C3_FilterIsConjunction ==
    (Filtered /\ FiveCriteria) =>
        filtered_df = SelectSeq(df, LAMBDA r :
            InCities(r) /\ InYears(r) /\ InMonths(r) /\ InIndustry(r) /\ InAmounts(r))

C3_Witness ==
    /\ pc = "done"
    /\ FiveCriteria
    /\ filtered_df # <<>>
    /\ Len(filtered_df) < Len(df)
    /\ \E i \in DOMAIN filtered_df :
            filtered_df[i].AmountInUSD = amount_range[2] * AmountScale

----------------------------------------------------------------------------
(* The ranked views *)

\* every entry of the view is a group of rows under key, with the group's sum
OverRows(view, rows, key) ==
    \A i \in DOMAIN view :
        /\ \E j \in DOMAIN rows : rows[j][key] = view[i].label
        /\ view[i].sum = Sum(SelectSeq(rows, LAMBDA r : r[key] = view[i].label))

\* how often name is an entry of the ", "-separated text inv
Entries(inv, name) ==
    LET parts == Split(inv, CommaSpace)
    IN  Cardinality({i \in DOMAIN parts : parts[i] = name})

\* the amount credited to name: each record's full amount once per entry
RECURSIVE Credit(_, _)
Credit(rows, name) ==
    IF rows = <<>> THEN 0
    ELSE Head(rows).AmountInUSD * Entries(Head(rows).InvestorsName, name)
         + Credit(Tail(rows), name)

\* every entry of the view is an investor entry of a record of rows, with the
\* amounts of the records of rows that list it
OverInvestorsOf(view, rows) ==
    \A i \in DOMAIN view :
        /\ \E j \in DOMAIN rows : Entries(rows[j].InvestorsName, view[i].label) > 0
        /\ view[i].sum = Credit(rows, view[i].label)

YearSelected == SelectSeq(df, LAMBDA r : r.Year \in selected_years)

\* C4 as stated: every ranked view, top cities included, is computed over the
\* filtered subset: its labels are labels of filtered records and its sums are
\* sums over filtered records.
C4_EveryViewOverFiltered ==
    (pc = "done" /\ shown = Charts) =>
        /\ OverRows(top_startups, filtered_df, "StartupName")
        /\ OverInvestorsOf(top_investors, filtered_df)
        /\ OverRows(top_industries, filtered_df, "IndustryVertical")
        /\ OverRows(top_cities, filtered_df, "CityLocation")

\* C4 amended: top startups, top investors and top industries are computed
\* over the filtered subset; top cities is computed over the records of the
\* loaded dataset whose year is selected, whatever the other criteria are.
C4_ViewsOverTheirRows ==
    (pc = "done" /\ shown = Charts) =>
        /\ OverRows(top_startups, filtered_df, "StartupName")
        /\ OverInvestorsOf(top_investors, filtered_df)
        /\ OverRows(top_industries, filtered_df, "IndustryVertical")
        /\ OverRows(top_cities, YearSelected, "CityLocation")
        /\ Len(top_cities) = Cardinality(Column(YearSelected, "CityLocation"))

C4_Witness ==
    /\ pc = "done"
    /\ shown = Charts
    /\ Len(filtered_df) < Len(df)
    /\ top_startups # <<>>
    /\ top_startups[1].sum < Sum(df)
    /\ \E i \in DOMAIN top_cities :
            top_cities[i].label \notin Column(filtered_df, "CityLocation")

\* C5: no label of the per-investor view is empty, whitespace only,
\* "Undisclosed Investors" or a comma-joined pair of names, and a record
\* with k valid investors is credited to exactly those k names.
C5_InvestorLabelsAreNames ==
    (pc = "done" /\ shown = Charts) =>
        /\ \A i \in DOMAIN top_investors :
                /\ Strip(top_investors[i].label) # <<>>
                /\ top_investors[i].label # Undisclosed
                /\ ~Contains(top_investors[i].label, Comma)
        /\ Len(top_investors) < top_n =>
                \A j \in DOMAIN filtered_df :
                    \A name \in InvestorNames(filtered_df[j].InvestorsName) \ {Undisclosed} :
                        \E i \in DOMAIN top_investors : top_investors[i].label = name

----------------------------------------------------------------------------
(* groupby / sum / nlargest *)

KeySum(rows, k) == Sum(SelectSeq(rows, LAMBDA r : r.StartupName = k))

Keys(rows) == {rows[i].StartupName : i \in DOMAIN rows}

Labels(ranked) == {ranked[i].label : i \in DOMAIN ranked}

\* the position in rows of the first row of group k
FirstRow(rows, k) ==
    CHOOSE i \in DOMAIN rows :
        /\ rows[i].StartupName = k
        /\ \A j \in 1..(i - 1) : rows[j].StartupName # k

\* C6: one entry per returned group with the sum of the group, sorted in
\* descending order of sum, holding the n groups with the largest sums, of
\* length min(n, number of keys); n <= 0 gives the empty sequence, n above the
\* number of groups gives all groups.
C6_TopNBySum ==
    pc = "returned" =>
        /\ \A i \in DOMAIN call_ret :
                /\ call_ret[i].label \in Keys(call_rows)
                /\ call_ret[i].sum = KeySum(call_rows, call_ret[i].label)
        /\ \A i, j \in DOMAIN call_ret :
                /\ i < j => call_ret[i].sum >= call_ret[j].sum
                /\ i # j => call_ret[i].label # call_ret[j].label
        /\ \A k \in Keys(call_rows) \ Labels(call_ret) :
                \A i \in DOMAIN call_ret : KeySum(call_rows, k) <= call_ret[i].sum
        /\ Len(call_ret) = Min(Max(call_n, 0), Cardinality(Keys(call_rows)))
        /\ call_n <= 0 => call_ret = <<>>
        /\ call_n >= Cardinality(Keys(call_rows)) => Labels(call_ret) = Keys(call_rows)

C6_Witness ==
    /\ pc = "returned"
    /\ call_n > 0
    /\ call_n < Cardinality(Keys(call_rows))
    /\ Len(call_ret) = call_n
    /\ Len(call_ret) >= 2
    /\ call_ret[1].sum > call_ret[2].sum

\* C7 as stated: groups of equal sum are ranked, and selected at the cut-off,
\* in the order in which the input rows first show them.
C7_TiesByFirstEncounter ==
    pc = "returned" =>
        /\ \A i, j \in DOMAIN call_ret :
                (i < j /\ call_ret[i].sum = call_ret[j].sum) =>
                    FirstRow(call_rows, call_ret[i].label)
                        < FirstRow(call_rows, call_ret[j].label)
        /\ \A k \in Keys(call_rows) \ Labels(call_ret) :
                \A i \in DOMAIN call_ret :
                    KeySum(call_rows, k) = call_ret[i].sum =>
                        FirstRow(call_rows, call_ret[i].label) < FirstRow(call_rows, k)

\* C7 amended: groups of equal sum are ranked, and selected at the cut-off, in
\* ascending order of their labels (the order of the sorted group keys), not
\* in the order of the input rows.
C7_TiesByLabel ==
    pc = "returned" =>
        /\ \A i, j \in DOMAIN call_ret :
                (i < j /\ call_ret[i].sum = call_ret[j].sum) =>
                    StrLess(call_ret[i].label, call_ret[j].label)
        /\ \A k \in Keys(call_rows) \ Labels(call_ret) :
                \A i \in DOMAIN call_ret :
                    KeySum(call_rows, k) = call_ret[i].sum =>
                        StrLess(call_ret[i].label, k)

C7_Witness ==
    /\ pc = "returned"
    /\ \E i, j \in DOMAIN call_ret :
            /\ i < j
            /\ call_ret[i].sum = call_ret[j].sum
            /\ FirstRow(call_rows, call_ret[i].label) > FirstRow(call_rows, call_ret[j].label)
    /\ \E k \in Keys(call_rows) \ Labels(call_ret) :
            /\ KeySum(call_rows, k) = call_ret[Len(call_ret)].sum
            /\ FirstRow(call_rows, k) < FirstRow(call_rows, call_ret[Len(call_ret)].label)

----------------------------------------------------------------------------
(* Cleaning, the empty result, the investor filter *)

Parses(row) == row.AmountInUSD.kind = "num" /\ row.Date.kind = "date"

\* C8: every record of the working dataset has an amount and a date, hence a
\* year and a month in 1..12, and a source row whose amount or date does not
\* parse is dropped at load.
C8_WorkingDatasetIsComplete ==
    pc # "load" =>
        /\ \A i \in DOMAIN df :
                /\ df[i].AmountInUSD # NaN
                /\ df[i].Date # NaT
                /\ df[i].Year # NaN
                /\ df[i].Month \in 1..12
        /\ Len(df) <= Len(SelectSeq(raw, Parses))

\* C9: an empty filtered subset raises no error and gives the "no data"
\* outcome with no metric and no aggregate computed; a non-empty one gives
\* total = sum of the amounts, count = number of records, mean = total / count.
C9_EmptyIsNoData ==
    /\ pc = "main" => (shown = {} /\ metrics = <<>>)
    /\ (Filtered /\ filtered_df = <<>>) =>
            /\ metrics = <<>>
            /\ top_startups = <<>> /\ top_investors = <<>> /\ monthly_trend = <<>>
            /\ top_industries = <<>> /\ top_cities = <<>>
            /\ pc = "done" => shown = {"warning"}
    /\ (pc = "done" /\ filtered_df # <<>>) =>
            /\ shown = Charts
            /\ Len(metrics) = 1
            /\ metrics[1].total_funding = Sum(filtered_df)
            /\ metrics[1].total_deals = Len(filtered_df)
            /\ metrics[1].avg_ticket.den = metrics[1].total_deals
            /\ metrics[1].avg_ticket.num = metrics[1].total_funding
            /\ metrics[1].avg_ticket.den > 0

C9_Witness ==
    /\ pc = "done"
    /\ df # <<>>
    /\ filtered_df = <<>>
    /\ selected_city # {}
    /\ shown = {"warning"}

\* C10: with investors selected, a record is kept by the investor filter if
\* and only if one of its individual investor names is a selected investor.
C10_InvestorFilterByName ==
    (Filtered /\ selected_investors # {}) =>
        filtered_df = SelectSeq(Without("investor"), LAMBDA r :
            InvestorNames(r.InvestorsName) \cap selected_investors # {})

====
